---- MODULE Spec2Model ----
(***************************************************************************)
(* A model of stac-server's search-engine layer (libs/es.js), its bulk     *)
(* ingest pipeline (src/lib/ingest.js) and the ingest lambda handler.      *)
(*                                                                         *)
(* JavaScript objects are functions from field names to values: a field is *)
(* present exactly when its name is in the DOMAIN (hasOwnProperty).        *)
(***************************************************************************)
EXTENDS Integers, Sequences, FiniteSets, TLC

(***************************************************************************)
(* Bounds of the model.                                                    *)
(***************************************************************************)
MaxBatch == 3
MaxEnvBatch == 2
MaxLargeBatch == 33
MaxVariant == 1
MaxPage == 3
MaxTotal == 25
MaxClock == 3

(***************************************************************************)
(* Program constants.                                                      *)
(***************************************************************************)
COLLECTIONS_INDEX == "collections"
ITEMS_INDEX == "items"
DefaultBatchSize == 500
RetryOnConflict == 3

VARIABLES
  \* ---- ingest lambda / bulk ingest pipeline
  event,        \* the batch as the caller handed it over: [create_indices, records]
  items,        \* stacItems: the record objects as they are now on the heap
  indices,      \* the indices that exist in the search engine
  envBatch,     \* process.env.ES_BATCH_SIZE as a number, 0 when unset
  pc,           \* position of handler / ingestItems
  readable,     \* records buffered in the source Readable
  processed,    \* how many records the transform stage has consumed
  toEsOut,      \* directives buffered on the readable side of the transform
  sinkBuf,      \* directives the sink holds pending (accepted, not yet written)
  needDrain,    \* the sink returned false from write() and has not drained yet
  written,      \* directives the sink has flushed to the engine
  emitted,      \* every directive the transform has emitted, in order
  pipeError,    \* the error the pipeline ended with, "none" when none
  cbCalls,      \* number of times pump's completion callback has run
  promise,      \* the promise ingestItems returned
  handlerState, \* the lambda handler's outcome
  \* ---- esClient and create_index
  _esClient,    \* the memoized client: 0 while undefined, else the client's identity
  connects,     \* how many times connect() has been carried out
  connectFailed,\* a connect() has thrown
  call,         \* per caller of esClient: its position, pending connect and client
  indexArg,     \* the index name create_index was called with
  createTried,  \* create_index has asked the engine to create an index
  \* ---- buildQuery
  parameters,   \* the search request handed to buildQuery
  built,        \* buildQuery has returned
  must,         \* the conjunctive clause list of the compiled query
  \* ---- search
  args,         \* the arguments of search: parameters and optional index, page, limit
  matching,     \* how many documents the engine holds that match
  searchPc,     \* position of search
  searchParams, \* the request search issued to the engine
  response,     \* what search returned
  \* ---- editPartialItem
  itemId,       \* the id argument
  patch,        \* the caller's patch as it was handed over
  updateFields, \* the patch object as it is now on the heap
  clock,        \* the server's clock
  editPc,       \* position of editPartialItem
  sentAt,       \* the clock when the update was issued
  updateRequest \* the update issued to the engine

ingestVars == <<event, items, envBatch, pc, readable, processed, toEsOut,
                sinkBuf, needDrain, written, emitted, pipeError, cbCalls, promise,
                handlerState>>

clientVars == <<_esClient, connects, connectFailed, call, indexArg, createTried>>

queryVars == <<parameters, built, must>>

searchVars == <<args, matching, searchPc, searchParams, response>>

editVars == <<itemId, patch, updateFields, clock, editPc, sentAt, updateRequest>>

vars == <<indices, ingestVars, clientVars, queryVars, searchVars, editVars>>

(***************************************************************************)
(* The state of each part of the program before it has been called.        *)
(***************************************************************************)
Undefined == 0

IngestIdle ==
  /\ event = [create_indices |-> FALSE, records |-> <<>>]
  /\ items = <<>>
  /\ envBatch = 0
  /\ pc = "idle"
  /\ readable = <<>>
  /\ processed = 0
  /\ toEsOut = <<>>
  /\ sinkBuf = <<>>
  /\ needDrain = FALSE
  /\ written = <<>>
  /\ emitted = <<>>
  /\ pipeError = "none"
  /\ cbCalls = 0
  /\ promise = "none"
  /\ handlerState = "idle"

Callers == {"search", "editPartialItem", "create_index", "_stream"}

ClientIdle ==
  /\ _esClient = Undefined
  /\ connects = 0
  /\ connectFailed = FALSE
  /\ call = [c \in Callers |-> [pc |-> "idle", conn |-> 0, client |-> Undefined]]
  /\ indexArg = ""
  /\ createTried = FALSE

QueryIdle ==
  /\ parameters = <<>>
  /\ built = FALSE
  /\ must = <<>>

SearchIdle ==
  /\ args = <<>>
  /\ matching = 0
  /\ searchPc = "idle"
  /\ searchParams = <<>>
  /\ response = <<>>

EditIdle ==
  /\ itemId = ""
  /\ patch = <<>>
  /\ updateFields = <<>>
  /\ clock = 0
  /\ editPc = "idle"
  /\ sentAt = 0
  /\ updateRequest = <<>>

(***************************************************************************)
(* Catalog records the event sources deliver.  Every record carries id and *)
(* links; a Collection has `extent`, an Item has `geometry`.               *)
(***************************************************************************)
Link(rel, href) == [rel |-> rel, href |-> href]

CollectionRecord ==
  [id |-> "c1", extent |-> "world",
   links |-> <<Link("self", "a"), Link("license", "b"), Link("root", "c"),
               Link("child", "d")>>]

ItemRecord ==
  [id |-> "i1", geometry |-> "point", collection |-> "c1",
   links |-> <<Link("via", "e"), Link("parent", "f"), Link("collection", "g"),
               Link("alternate", "h"), Link("item", "i")>>]

InertRecord ==
  [id |-> "x1", title |-> "catalog", links |-> <<Link("self", "j"), Link("about", "k")>>]

BothRecord ==
  [id |-> "b1", extent |-> "world", geometry |-> "point", links |-> <<>>]

RecordPool == {CollectionRecord, ItemRecord, InertRecord, BothRecord}

Batches == UNION {[1..n -> RecordPool] : n \in 0..MaxBatch}

(***************************************************************************)
(* es.js, _stream: the transform stage toEs.                               *)
(***************************************************************************)
hasOwnProperty(obj, field) == field \in DOMAIN obj

\* client.indices.exists(index) is not awaited: the call returns a Promise object
\* that will later hold the engine's answer.
IndicesExists(store, index) == [type |-> "Promise", value |-> index \in store]

\* JavaScript truthiness of what IndicesExists returns: an object is truthy.
Truthy(v) == IF v.type = "Promise" THEN TRUE ELSE v.value

hlinks == {"self", "root", "parent", "child", "collection", "item"}

KeepsLink(link) == link.rel \notin hlinks

MutantStripLinks(links) == SelectSeq(links, LAMBDA link : link.rel \notin (hlinks \ {"item"}))

\* data.links.filter((link) => !hlinks.includes(link.rel))
StripLinks(links) == SelectSeq(links, KeepsLink)

\* Object.assign({}, data, { links })
AssignLinks(data, links) ==
  [f \in DOMAIN data \cup {"links"} |-> IF f = "links" THEN links ELSE data[f]]

EsRecord(index, esDataObject) ==
  [index |-> index, type |-> "doc", id |-> esDataObject.id, action |-> "update",
   retry_on_conflict |-> RetryOnConflict,
   body |-> [doc |-> esDataObject, doc_as_upsert |-> TRUE]]

\* A plausible slip: the `return` after next() is missing, so an inert record
\* falls through and a directive with the empty index is built for it.
Mutant_toEs(data, store) ==
  IF ~hasOwnProperty(data, "links")
    THEN [kind |-> "throw", error |-> "TypeError", source |-> data]
    ELSE [kind |-> "record",
          record |-> EsRecord(IF hasOwnProperty(data, "extent") THEN COLLECTIONS_INDEX
                              ELSE IF hasOwnProperty(data, "geometry") THEN ITEMS_INDEX
                              ELSE "",
                              AssignLinks(data, StripLinks(data.links))),
          source |-> data]

\* The directive built for a record routed to `index` (es.js lines 105-122).
Directive(index, data) ==
  IF ~hasOwnProperty(data, "links")
    THEN [kind |-> "throw", error |-> "TypeError", source |-> data]
    ELSE [kind |-> "record",
          record |-> EsRecord(index, AssignLinks(data, StripLinks(data.links))),
          source |-> data]

\* The transform function: what it hands to next(), and the record object after
\* the call.  kind is "skip" (next()), "record" (next(null, record)) or "throw".
toEs(data, store) ==
  IF hasOwnProperty(data, "extent") THEN Directive(COLLECTIONS_INDEX, data)
  ELSE IF hasOwnProperty(data, "geometry")
    THEN IF ~Truthy(IndicesExists(store, ITEMS_INDEX))
           THEN [kind |-> "throw", error |-> "MissingCollectionError", source |-> data]
           ELSE Directive(ITEMS_INDEX, data)
  ELSE [kind |-> "skip", source |-> data]

MutantHighWaterMark(env) == DefaultBatchSize

\* Number(process.env.ES_BATCH_SIZE) || 500
HighWaterMark(env) == IF env # 0 THEN env ELSE DefaultBatchSize

(***************************************************************************)
(* ingest.js, ingestItems: the completion callback handed to pump.         *)
(***************************************************************************)
MutantIngestCallback(error) == "resolved"

IngestCallback(error) == IF error # "none" THEN "rejected" ELSE "resolved"

(***************************************************************************)
(* The ingest lambda and the pipeline, step by step.                       *)
(***************************************************************************)
IngestInit ==
  /\ event \in [create_indices : BOOLEAN, records : Batches]
  /\ items = event.records
  /\ indices \in SUBSET {COLLECTIONS_INDEX, ITEMS_INDEX}
  /\ envBatch \in 0..MaxEnvBatch
  /\ pc = "handler"
  /\ readable = <<>>
  /\ processed = 0
  /\ toEsOut = <<>>
  /\ sinkBuf = <<>>
  /\ needDrain = FALSE
  /\ written = <<>>
  /\ emitted = <<>>
  /\ pipeError = "none"
  /\ cbCalls = 0
  /\ promise = "none"
  /\ handlerState = "running"
  /\ ClientIdle /\ QueryIdle /\ SearchIdle /\ EditIdle

\* handler: `if (event.create_indices) await createIndex('collections')`, then the
\* records of the event become stacItems.  createIndex either creates the index
\* or logs and swallows the failure.
HandlerEnter ==
  /\ pc = "handler"
  /\ \E created \in BOOLEAN :
       indices' = IF event.create_indices /\ created
                  THEN indices \cup {COLLECTIONS_INDEX} ELSE indices
  /\ pc' = "ingestItems"
  /\ UNCHANGED <<event, items, envBatch, readable, processed, toEsOut, sinkBuf,
                 needDrain, written, emitted, pipeError, cbCalls, promise, handlerState>>
  /\ UNCHANGED <<clientVars, queryVars, searchVars, editVars>>

\* ingestItems: `await stream()` builds the transform and the sink.
IngestItemsStream ==
  /\ pc = "ingestItems"
  /\ pc' = "pump"
  /\ UNCHANGED <<event, items, indices, envBatch, readable, processed, toEsOut, sinkBuf,
                 needDrain, written, emitted, pipeError, cbCalls, promise, handlerState>>
  /\ UNCHANGED <<clientVars, queryVars, searchVars, editVars>>

\* ingestItems: the promise is created, pump wires the stages, and every item
\* and the end marker are pushed into the source in the same turn.
IngestItemsPush ==
  /\ pc = "pump"
  /\ promise' = "pending"
  /\ readable' = items
  /\ pc' = "flowing"
  /\ UNCHANGED <<event, items, indices, envBatch, processed, toEsOut, sinkBuf,
                 needDrain, written, emitted, pipeError, cbCalls, handlerState>>
  /\ UNCHANGED <<clientVars, queryVars, searchVars, editVars>>

Flowing == pc = "flowing" /\ pipeError = "none" /\ cbCalls = 0

ObjectModeHighWaterMark == 16

\* The source hands its next record to the transform stage.
TransformStep ==
  /\ Flowing
  /\ readable # <<>>
  /\ Len(toEsOut) < ObjectModeHighWaterMark
  /\ LET data == Head(readable)
         r == toEs(data, indices)
     IN /\ readable' = Tail(readable)
        /\ processed' = processed + 1
        /\ items' = [items EXCEPT ![processed + 1] = r.source]
        /\ IF r.kind = "record"
             THEN /\ toEsOut' = Append(toEsOut, r.record)
                  /\ emitted' = Append(emitted, r.record)
                  /\ pipeError' = pipeError
             ELSE /\ UNCHANGED <<toEsOut, emitted>>
                  /\ pipeError' = IF r.kind = "throw" THEN r.error ELSE pipeError
  /\ UNCHANGED <<event, indices, envBatch, pc, sinkBuf, needDrain, written, cbCalls,
                 promise, handlerState>>
  /\ UNCHANGED <<clientVars, queryVars, searchVars, editVars>>

\* The transform's output is written to the sink while the sink has capacity:
\* write() returns false once the sink holds highWaterMark records, and the
\* upstream stage stays paused until the sink has drained.
PipeToSink ==
  /\ Flowing
  /\ toEsOut # <<>>
  /\ ~needDrain
  /\ sinkBuf' = Append(sinkBuf, Head(toEsOut))
  /\ toEsOut' = Tail(toEsOut)
  /\ needDrain' = (Len(sinkBuf) + 1 >= HighWaterMark(envBatch))
  /\ UNCHANGED <<event, items, indices, envBatch, pc, readable, processed, written,
                 emitted, pipeError, cbCalls, promise, handlerState>>
  /\ UNCHANGED <<clientVars, queryVars, searchVars, editVars>>

\* The sink writes the first n pending records to the engine in one bulk call,
\* which the engine accepts or rejects.
SinkWrite ==
  /\ Flowing
  /\ sinkBuf # <<>>
  /\ \E n \in 1..Len(sinkBuf), ok \in BOOLEAN :
       IF ok
         THEN /\ written' = written \o SubSeq(sinkBuf, 1, n)
              /\ sinkBuf' = SubSeq(sinkBuf, n + 1, Len(sinkBuf))
              /\ needDrain' = (needDrain /\ n < Len(sinkBuf))
              /\ pipeError' = pipeError
         ELSE /\ pipeError' = "EngineError"
              /\ UNCHANGED <<written, sinkBuf, needDrain>>
  /\ UNCHANGED <<event, items, indices, envBatch, pc, readable, processed, toEsOut,
                 emitted, cbCalls, promise, handlerState>>
  /\ UNCHANGED <<clientVars, queryVars, searchVars, editVars>>

\* Every stage has ended: the source is exhausted and the sink has flushed.
PipelineFinished ==
  /\ pc = "flowing" /\ pipeError = "none"
  /\ readable = <<>> /\ toEsOut = <<>> /\ sinkBuf = <<>>

\* An error a stage reported through the stream (not one thrown out of it).
StreamError == pipeError = "EngineError"

\* pump calls the completion callback of ingestItems once, with the first error
\* or with none after the last stage has finished.
PumpCallback ==
  /\ pc = "flowing"
  /\ cbCalls = 0
  /\ PipelineFinished \/ StreamError
  /\ cbCalls' = cbCalls + 1
  /\ promise' = IF promise = "pending" THEN IngestCallback(pipeError) ELSE promise
  /\ UNCHANGED <<event, items, indices, envBatch, pc, readable, processed, toEsOut,
                 sinkBuf, needDrain, written, emitted, pipeError, handlerState>>
  /\ UNCHANGED <<clientVars, queryVars, searchVars, editVars>>

\* handler: `await ingestItems(...)` returns, or throws and the error is rethrown.
HandlerFinish ==
  /\ pc = "flowing"
  /\ promise \in {"resolved", "rejected"}
  /\ handlerState' = IF promise = "resolved" THEN "returned" ELSE "thrown"
  /\ pc' = "done"
  /\ UNCHANGED <<event, items, indices, envBatch, readable, processed, toEsOut, sinkBuf,
                 needDrain, written, emitted, pipeError, cbCalls, promise>>
  /\ UNCHANGED <<clientVars, queryVars, searchVars, editVars>>

IngestNext ==
  \/ HandlerEnter
  \/ IngestItemsStream
  \/ IngestItemsPush
  \/ TransformStep
  \/ PipeToSink
  \/ SinkWrite
  \/ PumpCallback
  \/ HandlerFinish

SpecIngest == IngestInit /\ [][IngestNext]_vars

\* The same lambda handed one large batch of plain collection records under a
\* configured ES_BATCH_SIZE, so that the buffers of the stages fill.
PlainCollection == [id |-> "c2", extent |-> "world", links |-> <<>>]

LargeBatches == {[i \in 1..n |-> PlainCollection] : n \in 0..MaxLargeBatch}

IngestLargeInit ==
  /\ event \in [create_indices : {FALSE}, records : LargeBatches]
  /\ items = event.records
  /\ indices = {COLLECTIONS_INDEX, ITEMS_INDEX}
  /\ envBatch \in 1..MaxEnvBatch
  /\ pc = "handler"
  /\ readable = <<>>
  /\ processed = 0
  /\ toEsOut = <<>>
  /\ sinkBuf = <<>>
  /\ needDrain = FALSE
  /\ written = <<>>
  /\ emitted = <<>>
  /\ pipeError = "none"
  /\ cbCalls = 0
  /\ promise = "none"
  /\ handlerState = "running"
  /\ ClientIdle /\ QueryIdle /\ SearchIdle /\ EditIdle

SpecIngestLarge == IngestLargeInit /\ [][IngestNext]_vars

(***************************************************************************)
(* es.js, esClient: the lazily connected, memoized client.  Each operation *)
(* of the module is one caller; connect() suspends the caller at its       *)
(* `await`, where other callers run.                                       *)
(***************************************************************************)
\* esClient up to its first suspension: `if (!_esClient)` starts connect(),
\* otherwise the memoized client is returned.
EsClientEnter(c) ==
  /\ call[c].pc = "idle"
  /\ IF _esClient = Undefined
       THEN /\ connects' = connects + 1
            /\ call' = [call EXCEPT ![c] = [pc |-> "connecting", conn |-> connects + 1,
                                            client |-> Undefined]]
       ELSE /\ connects' = connects
            /\ call' = [call EXCEPT ![c] = [pc |-> "has_client", conn |-> 0,
                                            client |-> _esClient]]
  /\ UNCHANGED <<_esClient, connectFailed, indexArg, createTried, indices>>
  /\ UNCHANGED <<ingestVars, queryVars, searchVars, editVars>>

\* connect() settles and the caller resumes: `_esClient = await connect()`, or
\* the error is caught and logged; either way `return _esClient`.
ConnectSettles(c) ==
  /\ call[c].pc = "connecting"
  /\ \E ok \in BOOLEAN :
       /\ _esClient' = IF ok THEN call[c].conn ELSE _esClient
       /\ connectFailed' = (connectFailed \/ ~ok)
       /\ call' = [call EXCEPT ![c].pc = "has_client", ![c].client = _esClient']
  /\ UNCHANGED <<connects, indexArg, createTried, indices>>
  /\ UNCHANGED <<ingestVars, queryVars, searchVars, editVars>>

\* The methods the engine client offers under client.indices.
IndicesApi == {"create", "delete", "exists", "get", "putMapping", "refresh"}

\* create_index after `await esClient()`: the result of the call and the store
\* it leaves behind.
CreateIndexBody(client, store, index) ==
  IF client = Undefined \/ "exits" \notin IndicesApi
    THEN [outcome |-> "rejected", error |-> "TypeError", store |-> store, tried |-> FALSE]
  ELSE IF index \notin store
    THEN [outcome |-> "resolved", error |-> "none",
          store |-> store \cup {COLLECTIONS_INDEX}, tried |-> TRUE]
  ELSE [outcome |-> "resolved", error |-> "none", store |-> store, tried |-> FALSE]

\* The caller goes on with the client it was given.
OperationContinues(c) ==
  /\ call[c].pc = "has_client"
  /\ IF c = "create_index"
       THEN LET r == CreateIndexBody(call[c].client, indices, indexArg)
            IN /\ call' = [call EXCEPT ![c].pc = r.outcome]
               /\ indices' = r.store
               /\ createTried' = r.tried
       ELSE /\ call' = [call EXCEPT ![c].pc =
                          IF call[c].client = Undefined /\ c # "_stream"
                          THEN "rejected" ELSE "resolved"]
            /\ UNCHANGED <<indices, createTried>>
  /\ UNCHANGED <<_esClient, connects, connectFailed, indexArg>>
  /\ UNCHANGED <<ingestVars, queryVars, searchVars, editVars>>

\* Another process creates an index while the callers are under way.
OtherCallerCreatesIndex ==
  /\ \E name \in {COLLECTIONS_INDEX, ITEMS_INDEX} \ indices : indices' = indices \cup {name}
  /\ UNCHANGED clientVars
  /\ UNCHANGED <<ingestVars, queryVars, searchVars, editVars>>

\* Every operation of the module calls esClient once, in any interleaving.
ClientInit ==
  /\ indices = {}
  /\ _esClient = Undefined
  /\ connects = 0
  /\ connectFailed = FALSE
  /\ call = [c \in Callers |-> [pc |-> "idle", conn |-> 0, client |-> Undefined]]
  /\ indexArg = COLLECTIONS_INDEX
  /\ createTried = FALSE
  /\ IngestIdle /\ QueryIdle /\ SearchIdle /\ EditIdle

ClientNext ==
  \/ \E c \in DOMAIN call : EsClientEnter(c)
  \/ \E c \in DOMAIN call : ConnectSettles(c)
  \/ \E c \in DOMAIN call : OperationContinues(c)

SpecClient == ClientInit /\ [][ClientNext]_vars

\* create_index(index) for either index name, over any store, beside a search
\* and beside another process that creates indices.
IndexInit ==
  /\ indices \in SUBSET {COLLECTIONS_INDEX, ITEMS_INDEX}
  /\ _esClient = Undefined
  /\ connects = 0
  /\ connectFailed = FALSE
  /\ call = [c \in {"create_index", "search"} |->
               [pc |-> "idle", conn |-> 0, client |-> Undefined]]
  /\ indexArg \in {COLLECTIONS_INDEX, ITEMS_INDEX}
  /\ createTried = FALSE
  /\ IngestIdle /\ QueryIdle /\ SearchIdle /\ EditIdle

IndexNext ==
  \/ \E c \in DOMAIN call : EsClientEnter(c)
  \/ \E c \in DOMAIN call : ConnectSettles(c)
  \/ \E c \in DOMAIN call : OperationContinues(c)
  \/ OtherCallerCreatesIndex

SpecIndex == IndexInit /\ [][IndexNext]_vars

HasClient(c) == call[c].pc \notin {"idle", "connecting"}

(***************************************************************************)
(* C3: as long as connect() succeeds it is carried out at most once, and   *)
(* every caller of esClient, also one that arrives while the first         *)
(* connect() is pending, receives the same client object.                  *)
(***************************************************************************)
C3_ConnectOnceSameClient ==
  ~connectFailed =>
    /\ connects <= 1
    /\ \A c, d \in DOMAIN call :
         (HasClient(c) /\ HasClient(d)) => call[c].client = call[d].client

(***************************************************************************)
(* C4: create_index never surfaces an error to its caller, whether or not  *)
(* the index exists and whether or not another caller creates it first.    *)
(***************************************************************************)
C4_CreateIndexNeverRejects == call["create_index"].pc # "rejected"

(***************************************************************************)
(* es.js, the query compiler.  A string that the code takes apart is a     *)
(* sequence of characters; an operand is a token.                          *)
(***************************************************************************)
\* Object.assign({}, a, b)
ObjectAssign(a, b) == [k \in DOMAIN a \cup DOMAIN b |-> IF k \in DOMAIN b THEN b[k] ELSE a[k]]

\* str.split(sep), for a one-character separator
RECURSIVE Split(_, _)
Split(str, sep) ==
  IF \A i \in 1..Len(str) : str[i] # sep THEN <<str>>
  ELSE LET i == CHOOSE j \in 1..Len(str) :
                  str[j] = sep /\ \A h \in 1..(j - 1) : str[h] # sep
       IN <<SubSeq(str, 1, i - 1)>> \o Split(SubSeq(str, i + 1, Len(str)), sep)

comparisons == <<"gt", "lt", "gte", "lte">>

\* comparisons.forEach from position i on: the bounds object after the loop.
RECURSIVE RangeBounds(_, _, _, _)
RangeBounds(i, exisiting, operators, operatorsObject) ==
  IF i > Len(comparisons) THEN exisiting
  ELSE LET comparison == comparisons[i] IN
       RangeBounds(i + 1,
                   IF comparison \in operators
                     THEN ObjectAssign(exisiting, comparison :> operatorsObject[comparison])
                     ELSE exisiting,
                   operators, operatorsObject)

\* A plausible slip: one range clause for each operator instead of one for all.
MutantBuildRangeQuery(property, operators, operatorsObject) ==
  LET propertyKey == "properties." \o property
      RECURSIVE PerOperator(_)
      PerOperator(i) ==
        IF i > Len(comparisons) THEN <<>>
        ELSE (IF comparisons[i] \in operators
                THEN <<[range |-> (propertyKey :>
                          (comparisons[i] :> operatorsObject[comparisons[i]]))]>>
                ELSE <<>>) \o PerOperator(i + 1)
  IN PerOperator(1)

\* The range clause of a property: <<>> stands for `undefined`, <<q>> for q.
buildRangeQuery(property, operators, operatorsObject) ==
  IF operators \cap {"gt", "lt", "gte", "lte"} # {}
    THEN LET propertyKey == "properties." \o property
         IN <<[range |-> (propertyKey :> RangeBounds(1, <<>>, operators, operatorsObject))]>>
    ELSE <<>>

buildDatetimeQuery(params) ==
  IF "datetime" \in DOMAIN params /\ params.datetime # <<>>
    THEN LET dataRange == Split(params.datetime, "/") IN
         IF Len(dataRange) = 2
           THEN <<[range |-> ("properties.datetime" :>
                                [gte |-> dataRange[1], lte |-> dataRange[2]])]>>
           ELSE <<[term |-> ("properties.datetime" :> params.datetime)]>>
    ELSE <<>>

\* The order in which Object.keys(query) yields the properties.
QueryKeys(query) == SelectSeq(<<"datetime", "foo">>, LAMBDA property : property \in DOMAIN query)

\* One step of the reduce over the properties of `query`.
QueryClauses(accumulator, property, operatorsObject) ==
  LET operators == DOMAIN operatorsObject
      first == IF "eq" \in operators
                 THEN <<[term |-> (("properties." \o property) :> operatorsObject.eq)]>>
               ELSE IF "in" \in operators
                 THEN <<[terms |-> (("properties." \o property) :> operatorsObject["in"])]>>
               ELSE <<>>
  IN accumulator \o first \o buildRangeQuery(property, operators, operatorsObject)

RECURSIVE ReduceQuery(_, _, _)
ReduceQuery(keys, query, accumulator) ==
  IF keys = <<>> THEN accumulator
  ELSE ReduceQuery(Tail(keys), query,
                   QueryClauses(accumulator, Head(keys), query[Head(keys)]))

\* buildQuery up to `const filter = { bool: { must } }`: the list `must`.
BoolMust(params) ==
  LET fromQuery == IF "query" \in DOMAIN params
                     THEN ReduceQuery(QueryKeys(params.query), params.query, <<>>)
                     ELSE <<>>
      withCollections == IF "collections" \in DOMAIN params
                           THEN Append(fromQuery, [terms |-> ("collection" :> params.collections)])
                           ELSE fromQuery
      withIntersects == IF "intersects" \in DOMAIN params
                          THEN Append(withCollections,
                                 [geo_shape |-> ("geometry" :> [shape |-> params.intersects])])
                          ELSE withCollections
  IN withIntersects \o buildDatetimeQuery(params)

buildQuery(params) ==
  [query |-> [constant_score |-> [filter |-> [bool |-> [must |-> BoolMust(params)]]]]]

(***************************************************************************)
(* The search requests buildQuery is asked to compile.                     *)
(***************************************************************************)
Operators == {"eq", "in", "gt", "lt", "gte", "lte"}

Digit(v) == IF v = 1 THEN "1" ELSE IF v = 2 THEN "2" ELSE "3"

\* The operand a request gives operator op, in its v-th variant.
Operand(op, v) == IF op = "in" THEN << <<op, Digit(v)>>, <<op, "0">> >> ELSE <<op, Digit(v)>>

OperatorsObjects ==
  {[op \in ops |-> Operand(op, v)] : ops \in SUBSET Operators, v \in 1..MaxVariant}

Queries == UNION {[props -> OperatorsObjects] : props \in SUBSET {"foo", "datetime"}}

OptionalFields ==
  {[f \in fs |-> CASE f = "collections" -> <<"c1", "c2">>
                    [] f = "intersects" -> "polygon"
                    [] f = "datetime" -> <<"1">>]
     : fs \in SUBSET {"collections", "intersects", "datetime"}}
  \cup
  {[f \in fs \cup {"datetime"} |->
       CASE f = "collections" -> <<"c1", "c2">>
         [] f = "intersects" -> "polygon"
         [] f = "datetime" -> <<"1", "/", "2">>]
     : fs \in SUBSET {"collections", "intersects"}}

SearchRequests ==
  OptionalFields \cup {("query" :> query) @@ other : query \in Queries, other \in OptionalFields}

QueryInit ==
  /\ indices = {}
  /\ parameters \in SearchRequests
  /\ built = FALSE
  /\ must = <<>>
  /\ IngestIdle /\ ClientIdle /\ SearchIdle /\ EditIdle

BuildQuery ==
  /\ ~built
  /\ must' = buildQuery(parameters).query.constant_score.filter.bool.must
  /\ built' = TRUE
  /\ UNCHANGED <<parameters, indices, ingestVars, clientVars, searchVars, editVars>>

QueryNext == BuildQuery

SpecQuery == QueryInit /\ [][QueryNext]_vars

\* The positions of the clauses of `must`, of one of the given kinds, on `field`.
ClausesOn(kinds, field) ==
  {k \in 1..Len(must) : \E kind \in kinds :
      kind \in DOMAIN must[k] /\ field \in DOMAIN must[k][kind]}

RangeOperators == {"gt", "lt", "gte", "lte"}

\* The request's own datetime value holds exactly one "/": a range of two ends.
DatetimeIsRange ==
  /\ "datetime" \in DOMAIN parameters
  /\ Cardinality({i \in 1..Len(parameters.datetime) : parameters.datetime[i] = "/"}) = 1

DatetimeIsInstant ==
  /\ "datetime" \in DOMAIN parameters
  /\ parameters.datetime # <<>>
  /\ ~DatetimeIsRange

(***************************************************************************)
(* C8 as stated: for every property P of the query filter, `must` holds at *)
(* most one term-or-terms clause on properties.P (the term clause of eq,   *)
(* otherwise the terms clause of in) and, when a range operator is given,  *)
(* exactly one range clause on properties.P, whose bounds are the given    *)
(* range operators with their operands.                                    *)
(***************************************************************************)
C8_OneClausePerProperty ==
  (built /\ "query" \in DOMAIN parameters) =>
    \A P \in DOMAIN parameters.query :
      LET ops == parameters.query[P]
          field == "properties." \o P
          eqin == ClausesOn({"term", "terms"}, field)
          rng == ClausesOn({"range"}, field)
          R == DOMAIN ops \cap RangeOperators
      IN /\ Cardinality(eqin) <= 1
         /\ "eq" \in DOMAIN ops =>
               \E k \in eqin : "term" \in DOMAIN must[k] /\ must[k].term[field] = ops.eq
         /\ ("eq" \notin DOMAIN ops /\ "in" \in DOMAIN ops) =>
               \E k \in eqin : "terms" \in DOMAIN must[k] /\ must[k].terms[field] = ops["in"]
         /\ R # {} =>
               /\ Cardinality(rng) = 1
               /\ \A k \in rng : must[k].range[field] = [o \in R |-> ops[o]]

(***************************************************************************)
(* C8 amended: the query filter contributes, for every property P, one     *)
(* term clause (eq), else one terms clause (in), else none, and one range  *)
(* clause holding exactly the given range operators with their operands    *)
(* when any is given, else none; the only other clause on properties.P is  *)
(* the one the request's own `datetime` parameter adds on                  *)
(* properties.datetime (a term clause for an instant, a range clause for a *)
(* range).                                                                 *)
(***************************************************************************)
C8_OneClausePerPropertyBesideDatetime ==
  (built /\ "query" \in DOMAIN parameters) =>
    \A P \in DOMAIN parameters.query :
      LET ops == parameters.query[P]
          field == "properties." \o P
          eqin == ClausesOn({"term", "terms"}, field)
          rng == ClausesOn({"range"}, field)
          R == DOMAIN ops \cap RangeOperators
          ownTerm == IF P = "datetime" /\ DatetimeIsInstant THEN 1 ELSE 0
          ownRange == IF P = "datetime" /\ DatetimeIsRange THEN 1 ELSE 0
      IN /\ Cardinality(eqin) =
              (IF {"eq", "in"} \cap DOMAIN ops # {} THEN 1 ELSE 0) + ownTerm
         /\ "eq" \in DOMAIN ops =>
               /\ \E k \in eqin : "term" \in DOMAIN must[k] /\ must[k].term[field] = ops.eq
               /\ \A k \in eqin : "term" \in DOMAIN must[k]
         /\ ("eq" \notin DOMAIN ops /\ "in" \in DOMAIN ops) =>
               \E k \in eqin : "terms" \in DOMAIN must[k] /\ must[k].terms[field] = ops["in"]
         /\ Cardinality(rng) = (IF R # {} THEN 1 ELSE 0) + ownRange
         /\ R # {} => \E k \in rng : must[k].range[field] = [o \in R |-> ops[o]]

\* query = {foo: {gt, lte}} has been compiled to a single clause.
C8_Witness ==
  /\ built
  /\ "query" \in DOMAIN parameters
  /\ DOMAIN parameters.query = {"foo"}
  /\ DOMAIN parameters.query.foo = {"gt", "lte"}
  /\ Len(must) = 1

(***************************************************************************)
(* es.js, search.                                                          *)
(***************************************************************************)
DefaultPage == 1
DefaultLimit == 10

buildIdQuery(id) == [query |-> [constant_score |-> [filter |-> [term |-> [id |-> id]]]]]

buildIdsQuery(ids) == [query |-> [ids |-> [values |-> ids]]]

buildSort(params) ==
  IF "sortby" \in DOMAIN params /\ Len(params.sortby) > 0
    THEN [i \in 1..Len(params.sortby) |->
            params.sortby[i].field :> [order |-> params.sortby[i].direction]]
    ELSE <<("properties.datetime" :> [order |-> "desc"])>>

SeqIncludes(seq, x) == \E i \in 1..Len(seq) : seq[i] = x

RECURSIVE PushMissing(_, _)
PushMissing(list, include) ==
  IF include = <<>> THEN list
  ELSE PushMissing(IF SeqIncludes(list, Head(include)) THEN list
                   ELSE Append(list, Head(include)),
                   Tail(include))

buildFieldsFilter(params) ==
  LET initial == IF "fields" \in DOMAIN params
                   THEN <<"id", "type", "geometry", "bbox", "links", "assets", "collection",
                          "properties.datetime">>
                   ELSE <<>>
      fields == IF "fields" \in DOMAIN params THEN params.fields ELSE <<>>
      included == IF "include" \in DOMAIN fields /\ Len(fields.include) > 0
                    THEN PushMissing(initial, fields.include) ELSE initial
      excluding == "exclude" \in DOMAIN fields /\ Len(fields.exclude) > 0
  IN [_sourceIncludes |->
        IF excluding
          THEN SelectSeq(included, LAMBDA field : ~SeqIncludes(fields.exclude, field))
          ELSE included,
      _sourceExcludes |-> IF excluding THEN fields.exclude ELSE <<>>]

\* An argument of search, or its default when the caller left it out.
Argument(name, default) == IF name \in DOMAIN args THEN args[name] ELSE default

\* from: (page - 1) * limit
Offset(page, limit) == (page - 1) * limit

\* The request search sends to the engine.
SearchParams(params, index, page, limit) ==
  LET body == IF "ids" \in DOMAIN params THEN buildIdsQuery(params.ids)
              ELSE IF "id" \in DOMAIN params THEN buildIdQuery(params.id)
              ELSE buildQuery(params)
      filter == buildFieldsFilter(params)
  IN [index |-> index,
      body |-> ("sort" :> buildSort(params)) @@ body,
      size |-> limit,
      from |-> Offset(page, limit)]
     @@ (IF Len(filter._sourceExcludes) > 0
           THEN "_sourceExcludes" :> filter._sourceExcludes ELSE <<>>)
     @@ (IF Len(filter._sourceIncludes) > 0
           THEN "_sourceIncludes" :> filter._sourceIncludes ELSE <<>>)

\* The engine's answer to a request: the total and the requested window of hits.
EngineSearch(request, total) ==
  LET first == request.from + 1
      last == IF request.from + request.size < total THEN request.from + request.size
              ELSE total
  IN [body |-> [hits |-> [total |-> total,
                          hits |-> [i \in 1..(IF last >= first THEN last - first + 1 ELSE 0)
                                      |-> [_source |-> [id |-> request.from + i]]]]]]

MutantNextLink(page, limit, total) == IF page * limit <= total THEN page + 1 ELSE 0

\* nextlink: the next page's number, or 0 for null.
NextLink(page, limit, total) == IF page * limit < total THEN page + 1 ELSE 0

\* The response search builds from the engine's answer.
SearchResponse(esResponse, page, limit) ==
  LET results == [i \in 1..Len(esResponse.body.hits.hits) |->
                    esResponse.body.hits.hits[i]._source]
      nextlink == NextLink(page, limit, esResponse.body.hits.total)
  IN [results |-> results,
      context |-> [page |-> page, limit |-> limit,
                   matched |-> esResponse.body.hits.total,
                   returned |-> Len(results)],
      links |-> IF nextlink # 0
                  THEN <<[title |-> "next", type |-> "application/json", href |-> nextlink]>>
                  ELSE <<>>]

Limits == {1, 2, 10}

SearchParameters ==
  { <<>>,
    [ids |-> <<"i1", "i2">>],
    [id |-> "i1"],
    [ids |-> <<"i1">>, id |-> "i2"],
    [query |-> [foo |-> [gt |-> Operand("gt", 1), lte |-> Operand("lte", 1)]],
     sortby |-> <<[field |-> "id", direction |-> "asc"]>>],
    [fields |-> [exclude |-> <<"bbox">>, include |-> <<"properties.foo", "id">>],
     datetime |-> <<"1", "/", "2">>] }

SearchArguments ==
  {("parameters" :> params) @@ rest :
     params \in SearchParameters,
     rest \in {<<>>} \cup
              {[page |-> p] : p \in 1..MaxPage} \cup
              {[limit |-> l] : l \in Limits} \cup
              {[page |-> p, limit |-> l] : p \in 1..MaxPage, l \in Limits} \cup
              {[index |-> "items", page |-> p, limit |-> l] : p \in 1..MaxPage, l \in Limits}}

SearchInit ==
  /\ indices = {COLLECTIONS_INDEX, ITEMS_INDEX}
  /\ args \in SearchArguments
  /\ matching \in 0..MaxTotal
  /\ searchPc = "called"
  /\ searchParams = <<>>
  /\ response = <<>>
  /\ IngestIdle /\ ClientIdle /\ QueryIdle /\ EditIdle

\* search up to `await esClient()`: the request is built.
SearchBuild ==
  /\ searchPc = "called"
  /\ searchParams' = SearchParams(args.parameters, Argument("index", "*"),
                                  Argument("page", DefaultPage),
                                  Argument("limit", DefaultLimit))
  /\ searchPc' = "awaitClient"
  /\ UNCHANGED <<args, matching, response>>
  /\ UNCHANGED <<indices, ingestVars, clientVars, queryVars, editVars>>

\* esClient() returns the client, or undefined when connect() failed: the call
\* client.search then throws.
SearchIssue ==
  /\ searchPc = "awaitClient"
  /\ \E client \in {Undefined, 1} :
       searchPc' = IF client = Undefined THEN "rejected" ELSE "searching"
  /\ UNCHANGED <<args, matching, searchParams, response>>
  /\ UNCHANGED <<indices, ingestVars, clientVars, queryVars, editVars>>

\* The engine answers, or reports an error that search passes on.
SearchReturn ==
  /\ searchPc = "searching"
  /\ \E ok \in BOOLEAN :
       IF ok
         THEN /\ response' = SearchResponse(EngineSearch(searchParams, matching),
                                            Argument("page", DefaultPage),
                                            Argument("limit", DefaultLimit))
              /\ searchPc' = "done"
         ELSE /\ response' = response
              /\ searchPc' = "rejected"
  /\ UNCHANGED <<args, matching, searchParams>>
  /\ UNCHANGED <<indices, ingestVars, clientVars, queryVars, editVars>>

SearchNext == SearchBuild \/ SearchIssue \/ SearchReturn

SpecSearch == SearchInit /\ [][SearchNext]_vars

\* The page and limit in force: the caller's, or the defaults 1 and 10.
PageInForce == IF "page" \in DOMAIN args THEN args.page ELSE 1

LimitInForce == IF "limit" \in DOMAIN args THEN args.limit ELSE 10

\* The matching documents, numbered from 1, that fall on the page in force.
OnPage == {j \in 1..matching : (PageInForce - 1) * LimitInForce < j
                                /\ j <= PageInForce * LimitInForce}

HasNextLink == \E i \in 1..Len(response.links) : response.links[i].title = "next"

(***************************************************************************)
(* C9: search issues the query with from = (page-1)*limit and size =       *)
(* limit; the context has matched = the engine's total and returned = the  *)
(* number of results of the fetched page; a "next" link is there exactly   *)
(* when page*limit < matched.                                              *)
(***************************************************************************)
C9_Pagination ==
  /\ searchPc \in {"awaitClient", "searching", "done"} =>
       /\ searchParams.from = (PageInForce - 1) * LimitInForce
       /\ searchParams.size = LimitInForce
  /\ searchPc = "done" =>
       /\ response.context.matched = matching
       /\ response.context.returned = Len(response.results)
       /\ response.context.returned = Cardinality(OnPage)
       /\ HasNextLink <=> PageInForce * LimitInForce < response.context.matched

\* Page 2 of 25 matches at limit 10: ten results and a next link.
C9_Witness ==
  /\ searchPc = "done"
  /\ PageInForce = 2 /\ LimitInForce = 10 /\ matching = 25
  /\ searchParams.from = 10
  /\ response.context.returned = 10
  /\ HasNextLink

(***************************************************************************)
(* es.js, editPartialItem.                                                 *)
(***************************************************************************)
\* new Date().toISOString(): the ISO-8601 text of an instant.
ToISOString(instant) == <<"T", instant>>

MutantWithRequiredProperties(fields, requiredProperties) ==
  ("properties" :> requiredProperties) @@ fields

\* The patch after `Object.assign(updateFields.properties, requiredProperties)`
\* or `updateFields.properties = requiredProperties`.
WithRequiredProperties(fields, requiredProperties) ==
  IF "properties" \in DOMAIN fields
    THEN [fields EXCEPT !.properties = ObjectAssign(fields.properties, requiredProperties)]
    ELSE ("properties" :> requiredProperties) @@ fields

PropertyObjects ==
  {[k \in ks |-> CASE k = "status" -> "archived"
                    [] k = "updated" -> ToISOString(0)
                    [] k = "eo:cloud_cover" -> 5]
     : ks \in SUBSET {"status", "updated", "eo:cloud_cover"}}

TopLevelFields ==
  {[k \in ks |-> CASE k = "status" -> "archived"
                    [] k = "assets" -> [thumbnail |-> "t.png"]]
     : ks \in SUBSET {"status", "assets"}}

Patches == TopLevelFields \cup
           {("properties" :> props) @@ top : props \in PropertyObjects, top \in TopLevelFields}

EditInit ==
  /\ indices = {COLLECTIONS_INDEX, ITEMS_INDEX}
  /\ itemId \in {"i1", "i2"}
  /\ patch \in Patches
  /\ updateFields = patch
  /\ clock = 1
  /\ editPc = "called"
  /\ sentAt = 0
  /\ updateRequest = <<>>
  /\ IngestIdle /\ ClientIdle /\ QueryIdle /\ SearchIdle

\* Time passes on the server.
Tick ==
  /\ clock < MaxClock
  /\ clock' = clock + 1
  /\ UNCHANGED <<itemId, patch, updateFields, editPc, sentAt, updateRequest>>
  /\ UNCHANGED <<indices, ingestVars, clientVars, queryVars, searchVars>>

\* editPartialItem: `await esClient()`.
EditAwaitClient ==
  /\ editPc = "called"
  /\ editPc' = "awaitClient"
  /\ UNCHANGED <<itemId, patch, updateFields, clock, sentAt, updateRequest>>
  /\ UNCHANGED <<indices, ingestVars, clientVars, queryVars, searchVars>>

\* editPartialItem resumes: the timestamp is merged into the patch and the
\* update is issued; with no client, client.update throws.
EditIssue ==
  /\ editPc = "awaitClient"
  /\ updateFields' = WithRequiredProperties(updateFields, [updated |-> ToISOString(clock)])
  /\ \E client \in {Undefined, 1} :
       IF client = Undefined
         THEN /\ editPc' = "rejected"
              /\ UNCHANGED <<updateRequest, sentAt>>
         ELSE /\ editPc' = "updating"
              /\ sentAt' = clock
              /\ updateRequest' = [index |-> ITEMS_INDEX, id |-> itemId, type |-> "doc",
                                    _source |-> TRUE, body |-> [doc |-> updateFields']]
  /\ UNCHANGED <<itemId, patch, clock>>
  /\ UNCHANGED <<indices, ingestVars, clientVars, queryVars, searchVars>>

\* The engine answers the update, or reports an error that is passed on.
EditReturn ==
  /\ editPc = "updating"
  /\ \E ok \in BOOLEAN : editPc' = IF ok THEN "done" ELSE "rejected"
  /\ UNCHANGED <<itemId, patch, updateFields, clock, sentAt, updateRequest>>
  /\ UNCHANGED <<indices, ingestVars, clientVars, queryVars, searchVars>>

EditNext == Tick \/ EditAwaitClient \/ EditIssue \/ EditReturn

SpecEdit == EditInit /\ [][EditNext]_vars

UpdateSent == updateRequest # <<>>

(***************************************************************************)
(* C10: the update editPartialItem sends goes to the items index, keyed by *)
(* the item id; its document's properties hold `updated` = the server's    *)
(* time when it was sent; the patch's own properties other than `updated`  *)
(* are kept, or properties holds the timestamp alone when the patch had    *)
(* none; every other top-level field of the patch is carried unchanged.    *)
(***************************************************************************)
C10_TimestampMergedIntoPatch ==
  UpdateSent =>
    LET doc == updateRequest.body.doc IN
    /\ updateRequest.index = "items"
    /\ updateRequest.id = itemId
    /\ DOMAIN doc = DOMAIN patch \cup {"properties"}
    /\ \A f \in DOMAIN patch \ {"properties"} : doc[f] = patch[f]
    /\ "updated" \in DOMAIN doc.properties
    /\ doc.properties.updated = <<"T", sentAt>>
    /\ IF "properties" \in DOMAIN patch
         THEN /\ DOMAIN doc.properties = DOMAIN patch.properties \cup {"updated"}
              /\ \A k \in DOMAIN patch.properties \ {"updated"} :
                    doc.properties[k] = patch.properties[k]
         ELSE DOMAIN doc.properties = {"updated"}

\* A patch with properties {status, updated} and a top-level field was sent
\* after the clock had moved on.
C10_Witness ==
  /\ UpdateSent
  /\ sentAt = 2
  /\ "properties" \in DOMAIN patch
  /\ DOMAIN patch.properties = {"status", "updated"}
  /\ "assets" \in DOMAIN patch

(***************************************************************************)
(* Vocabulary of the ingest claims, stated from the data model.            *)
(***************************************************************************)
IsInert(r) == "extent" \notin DOMAIN r /\ "geometry" \notin DOMAIN r

IsItem(r) == "geometry" \in DOMAIN r /\ "extent" \notin DOMAIN r

\* The positions, in order, of the records among the first n that are not inert.
RECURSIVE IndexablePositions(_, _)
IndexablePositions(recs, n) ==
  IF n = 0 THEN <<>>
  ELSE IF IsInert(recs[n]) THEN IndexablePositions(recs, n - 1)
  ELSE Append(IndexablePositions(recs, n - 1), n)

HierarchyRels == {"self", "root", "parent", "child", "collection", "item"}

\* The links of a record that are not hierarchy links, in their original order.
RECURSIVE NonHierarchyLinks(_)
NonHierarchyLinks(links) ==
  IF links = <<>> THEN <<>>
  ELSE IF Head(links).rel \in HierarchyRels THEN NonHierarchyLinks(Tail(links))
  ELSE <<Head(links)>> \o NonHierarchyLinks(Tail(links))

Settled == promise \in {"resolved", "rejected"}

\* The batch size the deployment configured: ES_BATCH_SIZE, 500 when unset.
ConfiguredBatchSize == IF envBatch = 0 THEN 500 ELSE envBatch

(***************************************************************************)
(* C1: the promise of ingestItems settles exactly once; it is resolved     *)
(* only after source, transform and sink have finished and the sink has    *)
(* flushed every directive of the batch; once the sink has reported a      *)
(* failed write the promise is never resolved and the call ends rejected,  *)
(* whatever the position of the failing record; the pipeline cannot stop   *)
(* with the promise still pending.                                         *)
(***************************************************************************)
C1_SettlesOnceAndFailsOnWriteError ==
  /\ cbCalls <= 1
  /\ Settled <=> cbCalls = 1
  /\ promise = "resolved" =>
       /\ pipeError = "none"
       /\ processed = Len(event.records)
       /\ readable = <<>> /\ toEsOut = <<>> /\ sinkBuf = <<>>
       /\ written = emitted
  /\ pipeError = "EngineError" => promise # "resolved" /\ handlerState # "returned"
  /\ (pipeError = "EngineError" /\ cbCalls = 1) => promise = "rejected"
  /\ handlerState = "returned" => promise = "resolved"
  /\ handlerState = "thrown" => promise = "rejected"
  /\ pc = "flowing" => (ENABLED IngestNext)

\* The write of the third record of a batch failed after two were written, and
\* the handler has rethrown the rejection.
C1_Witness ==
  /\ promise = "rejected" /\ handlerState = "thrown"
  /\ Len(written) = 2 /\ Len(emitted) = 3

(***************************************************************************)
(* C2: an Item whose index does not exist in the store gets no directive,  *)
(* a MissingCollectionError is raised and the ingest call does not         *)
(* succeed.                                                                *)
(***************************************************************************)
C2_MissingCollectionAborts ==
  \A i \in 1..processed :
    (IsItem(event.records[i]) /\ ITEMS_INDEX \notin indices) =>
      /\ pipeError = "MissingCollectionError"
      /\ \A k \in 1..Len(emitted) : emitted[k].id # event.records[i].id
      /\ promise # "resolved"

(***************************************************************************)
(* C5: an inert record yields no directive and no error, the other records *)
(* are still processed: the directives emitted so far are those of the     *)
(* non-inert records consumed so far, in order, and a resolved call has    *)
(* written one directive per non-inert record of the batch.                *)
(***************************************************************************)
C5_InertRecordsDropped ==
  LET pos == IndexablePositions(event.records, processed) IN
  /\ Len(emitted) = Len(pos)
  /\ \A k \in 1..Len(pos) : emitted[k].id = event.records[pos[k]].id
  /\ (processed > 0 /\ IsInert(event.records[processed])) =>
        pipeError \in {"none", "EngineError"}
  /\ promise = "resolved" =>
        Len(written) = Len(IndexablePositions(event.records, Len(event.records)))

\* A resolved batch that mixed an inert record with two indexable ones.
C5_Witness ==
  /\ promise = "resolved"
  /\ Len(event.records) = 3 /\ Len(written) = 2
  /\ IsInert(event.records[2])

(***************************************************************************)
(* C6: the document of every directive has exactly the non-hierarchy links *)
(* of its source record, in the original order, and every other field of   *)
(* the source; the source record objects are left as they were.            *)
(***************************************************************************)
C6_LinksStrippedSourceUntouched ==
  LET pos == IndexablePositions(event.records, processed) IN
  /\ items = event.records
  /\ Len(emitted) = Len(pos)
  /\ \A k \in 1..Len(pos) :
       LET src == event.records[pos[k]]
           doc == emitted[k].body.doc
       IN /\ DOMAIN doc = DOMAIN src
          /\ doc.links = NonHierarchyLinks(src.links)
          /\ \A f \in DOMAIN src \ {"links"} : doc[f] = src[f]

\* An item that carried hierarchy and other links has been transformed.
C6_Witness ==
  \E k \in 1..Len(emitted) :
    /\ emitted[k].id = ItemRecord.id
    /\ Len(emitted[k].body.doc.links) = 2
    /\ Len(ItemRecord.links) = 5

(***************************************************************************)
(* C7 as stated: the sink never holds more than the configured batch size  *)
(* pending, and the records waiting upstream of the sink never exceed what *)
(* the upstream stages may buffer (the high-water marks of the source and  *)
(* of the two sides of the transform).                                     *)
(***************************************************************************)
UpstreamCapacity == 2 * ObjectModeHighWaterMark

C7_ProducerThrottled ==
  /\ Len(sinkBuf) <= ConfiguredBatchSize
  /\ Len(readable) <= UpstreamCapacity

(***************************************************************************)
(* C7 amended: the sink never holds more than the configured batch size    *)
(* pending and the transform never buffers more than its high-water mark   *)
(* of directives; the source, into which ingestItems pushes the whole      *)
(* batch at once, holds at most the batch.                                 *)
(***************************************************************************)
C7_SinkBoundedSourceHoldsBatch ==
  /\ Len(sinkBuf) <= ConfiguredBatchSize
  /\ Len(toEsOut) <= ObjectModeHighWaterMark
  /\ Len(readable) <= Len(event.records)
  /\ (pc = "flowing" /\ processed = 0) => readable = event.records

\* The sink is full at a configured batch size of 2 while more of the batch waits
\* upstream.
C7_Witness ==
  /\ envBatch = 2 /\ Len(sinkBuf) = 2 /\ needDrain
  /\ Len(toEsOut) >= 1 /\ Len(readable) >= 1

====
